---- MODULE Spec2Model ----
(***************************************************************************)
(* Model of the tool dispatcher of the "pro-universal-db-mcp" server       *)
(* (src/src/index.ts, lines 1-333): the CallToolRequestSchema handler, the *)
(* safe-mode gate checkSafeMode and the twelve tool handlers.              *)
(*                                                                         *)
(* Strings the code inspects character by character (the sql argument) are *)
(* tuples of one-character strings.  Texts the code only assembles         *)
(* (response texts, file contents) are tuples of pieces; the line break    *)
(* "\n" is always a piece of its own, so lines can be counted.             *)
(* The database, the faker library, the sql formatter and the file system  *)
(* are the environment: every call to them is logged in `calls`, and their *)
(* outcome is chosen nondeterministically (env).                           *)
(***************************************************************************)
EXTENDS Integers, Sequences, FiniteSets, TLC

VARIABLES
    safeMode,   \* process.env.SAFE_MODE === "true", fixed at startup
    dbType,     \* process.env.DB_TYPE || "mysql2", fixed at startup
    db,         \* the database: number of statements that changed its contents or schema
    phase,      \* "idle": waiting for a request; "responded": the handler has settled
    req,        \* the request last handled: [name, args]
    resp,       \* the object the handler resolved to
    outcome,    \* how the body of the try block ended: "return" or "throw"
    escaped,    \* TRUE iff an exception left the handler
    calls,      \* the calls the handler made to knex, in order, with what they resolved to
    file,       \* what fs.writeFile was asked to write for this request
    dbBefore    \* db when the request arrived

vars == <<safeMode, dbType, db, phase, req, resp, outcome, escaped, calls, file, dbBefore>>

----------------------------------------------------------------------------
(* Bounds of the model *)

\* largest explicit count argument of seed_data
MaxCount == 2
\* largest number of rows a query returns
MaxRows == 2
\* the database accepts at most this many changing statements
MaxVersion == 1
\* largest number of entries of a seed_data mapping
MaxMapping == 2

(* Program constants *)

\* i < (count || 10)
DefaultCount == 10

----------------------------------------------------------------------------
(* Strings as tuples of characters *)

UpperCase ==
    <<"A", "B", "C", "D", "E", "F", "G", "H", "I", "J", "K", "L", "M",
      "N", "O", "P", "Q", "R", "S", "T", "U", "V", "W", "X", "Y", "Z">>

LowerCase ==
    <<"a", "b", "c", "d", "e", "f", "g", "h", "i", "j", "k", "l", "m",
      "n", "o", "p", "q", "r", "s", "t", "u", "v", "w", "x", "y", "z">>

WhiteSpace == {" ", "\t", "\n", "\r"}

LowerChar(c) ==
    IF \E i \in 1..Len(UpperCase) : UpperCase[i] = c
    THEN LowerCase[CHOOSE i \in 1..Len(UpperCase) : UpperCase[i] = c]
    ELSE c

\* String.prototype.toLowerCase
ToLowerCase(s) == [i \in 1..Len(s) |-> LowerChar(s[i])]

RECURSIVE TrimStart(_)
TrimStart(s) ==
    IF s # <<>> /\ Head(s) \in WhiteSpace THEN TrimStart(Tail(s)) ELSE s

RECURSIVE TrimEnd(_)
TrimEnd(s) ==
    IF s # <<>> /\ s[Len(s)] \in WhiteSpace
    THEN TrimEnd(SubSeq(s, 1, Len(s) - 1))
    ELSE s

\* String.prototype.trim
Trim(s) == TrimEnd(TrimStart(s))

\* String.prototype.startsWith
StartsWith(s, prefix) ==
    /\ Len(prefix) <= Len(s)
    /\ SubSeq(s, 1, Len(prefix)) = prefix

KwSelect == <<"s", "e", "l", "e", "c", "t">>
KwShow == <<"s", "h", "o", "w">>
KwDescribe == <<"d", "e", "s", "c", "r", "i", "b", "e">>
KwDelete == <<"d", "e", "l", "e", "t", "e">>
KwDrop == <<"d", "r", "o", "p">>
KwInsert == <<"i", "n", "s", "e", "r", "t">>
KwUpdate == <<"u", "p", "d", "a", "t", "e">>
KwCreate == <<"c", "r", "e", "a", "t", "e">>
KwAlter == <<"a", "l", "t", "e", "r">>
KwWith == <<"w", "i", "t", "h">>
KwAnalyze == <<"a", "n", "a", "l", "y", "z", "e">>
KwExplain == <<"e", "x", "p", "l", "a", "i", "n", " ">>
KwExplainAnalyze ==
    <<"e", "x", "p", "l", "a", "i", "n", " ", "a", "n", "a", "l", "y", "z", "e", " ">>
ExplainPrefix == <<"E", "X", "P", "L", "A", "I", "N", " ">>
StrUndefined == <<"u", "n", "d", "e", "f", "i", "n", "e", "d">>
StrNull == <<"n", "u", "l", "l">>
StrFive == <<"5">>

(* The sql texts requests are drawn from *)

SqlSelect == <<"S", "E", "L", "E", "C", "T", " ", "1">>
SqlSelectPadded == <<" ", " ", "s", "e", "l", "e", "c", "t", " ", "1", " ">>
SqlShow == <<"S", "h", "o", "w", " ", "t", "a", "b", "l", "e", "s">>
SqlDescribe == <<"D", "E", "S", "C", "R", "I", "B", "E", " ", "t">>
SqlDelete == <<"D", "E", "L", "E", "T", "E", " ", "F", "R", "O", "M", " ", "t">>
SqlDropPadded == <<"\t", "d", "r", "o", "p", " ", "t", "a", "b", "l", "e", " ", "t">>
SqlEmpty == <<>>
SqlBlank == <<" ", " ">>
SqlAnalyzeDelete ==
    <<"A", "N", "A", "L", "Y", "Z", "E", " ", "D", "E", "L", "E", "T", "E", " ",
      "F", "R", "O", "M", " ", "t">>
SqlWith ==
    <<"w", "i", "t", "h", " ", "x", " ", "a", "s", " ", "(", "s", "e", "l", "e", "c", "t",
      " ", "1", ")", " ", "s", "e", "l", "e", "c", "t", " ", "1">>

SqlTexts ==
    {SqlSelect, SqlSelectPadded, SqlShow, SqlDescribe, SqlDelete, SqlDropPadded,
     SqlEmpty, SqlBlank, SqlAnalyzeDelete, SqlWith}

----------------------------------------------------------------------------
(* JavaScript values of the arguments.  Every argument is a record          *)
(* [t |-> typeof-like tag, ...] with the same fields whatever the tag.      *)

\* the sql argument: s is the text when t = "string"
SqlUndefined == [t |-> "undefined", s |-> <<>>]
SqlNull == [t |-> "null", s |-> <<>>]
SqlNumber == [t |-> "number", s |-> StrFive]
SqlString(s) == [t |-> "string", s |-> s]
SqlArgs == {SqlUndefined, SqlNull, SqlNumber} \cup {SqlString(s) : s \in SqlTexts}

\* table, format, filename: s is the text when t = "string"
StrUndef == [t |-> "undefined", s |-> ""]
Str(s) == [t |-> "string", s |-> s]
TableArgs == {StrUndef, Str("users")}
FormatArgs == {StrUndef, Str("json"), Str("csv"), Str("xml")}
FilenameArgs == {StrUndef, Str("out.txt")}

\* data, where: objects handed to knex unread
ObjUndef == [t |-> "undefined"]
ObjValue == [t |-> "object"]
ObjArgs == {ObjUndef, ObjValue}

\* count: n is the number when t = "number"
NumUndef == [t |-> "undefined", n |-> 0]
NumNull == [t |-> "null", n |-> 0]
Num(n) == [t |-> "number", n |-> n]
CountArgs == {NumUndef, NumNull} \cup {Num(n) : n \in -1..MaxCount}

\* a faker path: a string is the tuple of its names with "." between them
PathString(p) == [t |-> "string", p |-> p]
PathNumber == [t |-> "number", p |-> <<>>]
FakerPaths ==
    <<PathString(<<"person", ".", "fullName">>),      \* resolves
      PathString(<<"internet", ".", "email">>),       \* resolves
      PathString(<<"nope", ".", "x">>),               \* no such category
      PathString(<<"person", ".", "nope">>),          \* no such method
      PathString(<<"person">>),                       \* no method part
      PathString(<<>>),                               \* the empty string
      PathString(<<"definitions", ".", "person">>),   \* a property that is no function
      PathString(<<"helpers", ".", "arrayElement">>), \* a generator that raises
      PathNumber>>                                    \* not a string

Columns == <<"c1", "c2", "c3", "c4">>

\* mapping: e is the list of [col, path] entries of the object, in key order
MapUndef == [t |-> "undefined", e |-> <<>>]
MapObject(e) == [t |-> "object", e |-> e]

\* the entries that give the paths numbered S, in order, to the first columns
EntriesOf(S) ==
    [i \in 1..Cardinality(S) |->
        [col |-> Columns[i],
         path |-> FakerPaths[CHOOSE x \in S : Cardinality({y \in S : y < x}) = i - 1]]]

MappingArgs ==
    {MapUndef} \cup
    {MapObject(EntriesOf(S)) : S \in {T \in SUBSET (1..Len(FakerPaths)) : Cardinality(T) <= MaxMapping}}

\* request.params.arguments: absent, or an object holding the arguments
NoArgs ==
    [present |-> FALSE, sql |-> SqlUndefined, table |-> StrUndef, data |-> ObjUndef,
     where |-> ObjUndef, count |-> NumUndef, mapping |-> MapUndef,
     format |-> StrUndef, filename |-> StrUndef]

EmptyArgs == [NoArgs EXCEPT !.present = TRUE]

----------------------------------------------------------------------------
(* Values that come back from knex.  A row is the list of its [k, v]        *)
(* entries in key order; v is the string form of the cell, in pieces.       *)

\* a result row object
SampleRow(i, nl) ==
    <<[k |-> "id", v |-> <<ToString(i)>>],
      [k |-> "name", v |-> IF nl THEN <<"a", "\n", "b">> ELSE <<"a", ",", "b">>]>>

\* the rows a query returns: n rows; with nl, the first one holds a line break
QueryRows(n, nl) == [i \in 1..n |-> SampleRow(i, nl /\ i = 1)]

\* [kind, rows, hdr]:
\*   "array"     an array of row objects (rows)
\*   "object"    an object that is no array (a ResultSetHeader, a columnInfo map, ...)
\*   "pair"      mysql2's [first, fields]; first is the rows, or an object when hdr
\*   "pgresult"  pg's {command, rowCount, rows, ...}
\*   "row"       one row object (rows[1])
\*   "string"    a string (rows unused)
\*   "undefined" undefined
ArrayValue(rows) == [kind |-> "array", rows |-> rows, hdr |-> FALSE]
ObjectValue == [kind |-> "object", rows |-> <<>>, hdr |-> FALSE]
PairValue(rows, hdr) == [kind |-> "pair", rows |-> rows, hdr |-> hdr]
PgResultValue(rows) == [kind |-> "pgresult", rows |-> rows, hdr |-> FALSE]
RowValue(row) == [kind |-> "row", rows |-> <<row>>, hdr |-> FALSE]
StringValue == [kind |-> "string", rows |-> <<>>, hdr |-> FALSE]
UndefinedValue == [kind |-> "undefined", rows |-> <<>>, hdr |-> FALSE]

\* result[0]
Index0(v) ==
    CASE v.kind = "pair" -> IF v.hdr THEN ObjectValue ELSE ArrayValue(v.rows)
      [] v.kind = "array" /\ v.rows # <<>> -> RowValue(v.rows[1])
      [] OTHER -> UndefinedValue

\* result.rows
RowsField(v) ==
    IF v.kind = "pgresult" THEN ArrayValue(v.rows) ELSE UndefinedValue

\* dbType === "mysql2" ? result[0] : (dbType === "pg" ? result.rows : result)
ExtractRows(type, result) ==
    IF type = "mysql2" THEN Index0(result)
    ELSE IF type = "pg" THEN RowsField(result)
    ELSE result

----------------------------------------------------------------------------
(* JSON.stringify(value, null, 2) and its inverse on arrays *)

JsString(pieces) == [t |-> "string", s |-> pieces]
JsUndefined == [t |-> "undefined", s |-> <<>>]

Indent(d) == [i \in 1..d |-> "  "]

RECURSIVE JsonEscape(_)
\* the characters of a string as JSON writes them: the line break escaped
JsonEscape(pieces) ==
    IF pieces = <<>> THEN ""
    ELSE (IF Head(pieces) = "\n" THEN "\\n" ELSE Head(pieces)) \o JsonEscape(Tail(pieces))

\* a string inside JSON: one quoted token
JsonQuote(pieces) == <<"\"" \o JsonEscape(pieces) \o "\"">>

RECURSIVE JsonMembers(_, _, _)
JsonMembers(row, i, d) ==
    IF i > Len(row) THEN <<>>
    ELSE <<"\n">> \o Indent(d) \o JsonQuote(<<row[i].k>>) \o <<":", " ">>
         \o JsonQuote(row[i].v)
         \o (IF i < Len(row) THEN <<",">> ELSE <<>>)
         \o JsonMembers(row, i + 1, d)

JsonObject(row, d) ==
    IF row = <<>> THEN <<"{", "}">>
    ELSE <<"{">> \o JsonMembers(row, 1, d + 1) \o <<"\n">> \o Indent(d) \o <<"}">>

RECURSIVE JsonElements(_, _, _)
JsonElements(rows, i, d) ==
    IF i > Len(rows) THEN <<>>
    ELSE <<"\n">> \o Indent(d) \o JsonObject(rows[i], d)
         \o (IF i < Len(rows) THEN <<",">> ELSE <<>>)
         \o JsonElements(rows, i + 1, d)

JsonArray(rows, d) ==
    IF rows = <<>> THEN <<"[", "]">>
    ELSE <<"[">> \o JsonElements(rows, 1, d + 1) \o <<"\n">> \o Indent(d) \o <<"]">>

\* the text of a value that is not undefined
JsonText(v) ==
    CASE v.kind = "array" -> JsonArray(v.rows, 0)
      [] v.kind = "row" -> JsonObject(v.rows[1], 0)
      [] v.kind = "object" -> <<"{", "\n", "  ", "\"affectedRows\"", ":", " ", "1", "\n", "}">>
      [] v.kind = "string" ->
            JsonQuote(<<"Relationship discovery for this DB type is coming soon.">>)
      [] v.kind = "pair" ->
            <<"[", "\n", "  ">>
            \o (IF v.hdr
                THEN <<"{", "\n", "    ", "\"affectedRows\"", ":", " ", "1", "\n", "  ", "}">>
                ELSE JsonArray(v.rows, 1))
            \o <<",", "\n", "  ", "null", "\n", "]">>
      [] v.kind = "pgresult" ->
            <<"{", "\n", "  ", "\"command\"", ":", " ", "\"SELECT\"", ",",
              "\n", "  ", "\"rows\"", ":", " ">>
            \o JsonArray(v.rows, 1) \o <<"\n", "}">>

\* JSON.stringify(v, null, 2): undefined for undefined, a string otherwise
JsonStringify(v) ==
    IF v.kind = "undefined" THEN JsUndefined ELSE JsString(JsonText(v))

\* the nesting depth of a JSON text before its i-th token
JsonDepth(text, i) ==
    Cardinality({j \in 1..(i - 1) : text[j] \in {"[", "{"}})
    - Cardinality({j \in 1..(i - 1) : text[j] \in {"]", "}"}})

\* JSON.parse(text).length for the text of an array: one element per value
\* that opens at depth 1, the elements being separated by the commas of depth 1
JsonArrayLength(text) ==
    LET commas == Cardinality({i \in 1..Len(text) : text[i] = "," /\ JsonDepth(text, i) = 1})
        some == \E i \in 1..Len(text) :
                    /\ JsonDepth(text, i) = 1
                    /\ text[i] \notin {"\n", "  ", " ", "]", ","}
    IN IF some THEN commas + 1 ELSE 0

IsJsonArrayText(text) == text # <<>> /\ text[1] = "[" /\ text[Len(text)] = "]"

----------------------------------------------------------------------------
(* The csv text of export_data *)

RECURSIVE Join(_, _)
\* Array.prototype.join on an array of strings
Join(strs, sep) ==
    IF strs = <<>> THEN <<>>
    ELSE IF Len(strs) = 1 THEN strs[1]
    ELSE strs[1] \o <<sep>> \o Join(Tail(strs), sep)

\* Object.keys(row) and Object.values(row), as strings
Keys(row) == [i \in 1..Len(row) |-> <<row[i].k>>]
Values(row) == [i \in 1..Len(row) |-> row[i].v]

\* the csv text of export_data: the keys of the first row, a line break, and
\* the rows, each comma-joined, joined by line breaks; nothing is quoted
CsvContent(rows) ==
    LET headers == Join(Keys(IF rows = <<>> THEN <<>> ELSE rows[1]), ",")
        body == Join([i \in 1..Len(rows) |-> Join(Values(rows[i]), ",")], "\n")
    IN headers \o <<"\n">> \o body

\* the number of lines of a text: one more than its line breaks
CountLines(text) == 1 + Cardinality({i \in 1..Len(text) : text[i] = "\n"})

----------------------------------------------------------------------------
(* The environment: knex and the database behind it *)

DbTypes == {"mysql2", "pg", "sqlite3"}

\* what the environment decides for one request
\*   dbOk     the database is reachable (FALSE: the first knex call rejects)
\*   n, nl    the rows a query returns: QueryRows(n, nl)
\*   affected the number of rows an update or a delete reports
\*   fsOk     fs.writeFile resolves
\*   fmtOk    the sql formatter returns
DefaultEnv ==
    [dbOk |-> TRUE, n |-> 0, nl |-> FALSE, affected |-> 0, fsOk |-> TRUE, fmtOk |-> TRUE]

\* the environments that differ in what a query returns
QueryEnvs ==
    {[DefaultEnv EXCEPT !.dbOk = FALSE]}
    \cup {[DefaultEnv EXCEPT !.n = n, !.nl = nl] : n \in 0..MaxRows, nl \in BOOLEAN}

\* the environments that differ in what a changing call reports
WriteEnvs ==
    {[DefaultEnv EXCEPT !.dbOk = FALSE]}
    \cup {[DefaultEnv EXCEPT !.affected = a] : a \in 0..1}

MutatingKeywords == {KwDelete, KwDrop, KwInsert, KwUpdate, KwCreate, KwAlter}

\* whether the database runs `text` as a statement that changes it: a statement
\* that begins with a changing keyword, and on pg also EXPLAIN ANALYZE of one
Mutates(type, text) ==
    LET t == ToLowerCase(Trim(text)) IN
    \/ \E kw \in MutatingKeywords : StartsWith(t, kw)
    \/ /\ type = "pg"
       /\ StartsWith(t, KwExplainAnalyze)
       /\ \E kw \in MutatingKeywords :
              StartsWith(SubSeq(t, Len(KwExplainAnalyze) + 1, Len(t)), kw)

\* a logged call: op, the sql text of a raw call, the rows of an insert, and
\* the value the call resolved to (undefined when it rejected)
Call(op, sql, rows, result) == [op |-> op, sql |-> sql, rows |-> rows, result |-> result]

\* the raw result of a query in the shape of the driver
QueryResult(type, rows) ==
    IF type = "mysql2" THEN PairValue(rows, FALSE)
    ELSE IF type = "pg" THEN PgResultValue(rows)
    ELSE ArrayValue(rows)

\* the raw result of a statement that returns no rows
StatementResult(type) ==
    IF type = "mysql2" THEN PairValue(<<>>, TRUE)
    ELSE IF type = "pg" THEN PgResultValue(<<>>)
    ELSE ArrayValue(<<>>)

\* the keywords a statement the database parses begins with
StatementKeywords ==
    MutatingKeywords \cup {KwSelect, KwShow, KwDescribe, KwWith, KwAnalyze}

\* whether the database parses `text`: a statement, or EXPLAIN of one
Parses(text) ==
    LET t == ToLowerCase(Trim(text))
        u == IF StartsWith(t, KwExplain)
             THEN TrimStart(SubSeq(t, Len(KwExplain) + 1, Len(t)))
             ELSE t
    IN \E kw \in StatementKeywords : StartsWith(u, kw)

\* whether db.raw(text) resolves: the database is reachable and parses the
\* text; what becomes of the empty query is up to the driver
RawResolves(text, env) ==
    env.dbOk /\ (Trim(text) = <<>> \/ Parses(text))

\* the value db.raw(text) resolves to
RawValue(text, env) ==
    IF Trim(text) = <<>> THEN QueryResult(dbType, <<>>)
    ELSE IF Mutates(dbType, text) THEN StatementResult(dbType)
    ELSE QueryResult(dbType, QueryRows(env.n, env.nl))

\* await db.raw(text): [ok, value, db, call]; the call is logged whether it
\* resolves or rejects
Raw(text, env) ==
    IF ~RawResolves(text, env)
    THEN [ok |-> FALSE, value |-> UndefinedValue, db |-> db,
          call |-> Call("raw", text, <<>>, UndefinedValue)]
    ELSE [ok |-> TRUE, value |-> RawValue(text, env),
          db |-> IF Mutates(dbType, text) THEN db + 1 ELSE db,
          call |-> Call("raw", text, <<>>, RawValue(text, env))]

\* the value a query-builder select resolves to: the rows
SelectValue(env) ==
    IF env.dbOk THEN ArrayValue(QueryRows(env.n, env.nl)) ELSE UndefinedValue

\* await db(table).where(..).select(..)
Select(env) ==
    [ok |-> env.dbOk, value |-> SelectValue(env), db |-> db,
     call |-> Call("select", <<>>, <<>>, SelectValue(env))]

\* await db(table).insert(rows): an empty list inserts nothing
Insert(rows, env) ==
    [ok |-> env.dbOk,
     db |-> IF env.dbOk /\ rows # <<>> THEN db + 1 ELSE db,
     call |-> Call("insert", <<>>, rows, IF env.dbOk THEN ObjectValue ELSE UndefinedValue)]

\* await db(table).where(w).update(d) and .del(): resolve to the affected count
Modify(op, env) ==
    [ok |-> env.dbOk, count |-> env.affected,
     db |-> IF env.dbOk /\ env.affected > 0 THEN db + 1 ELSE db,
     call |-> Call(op, <<>>, <<>>, IF env.dbOk THEN ObjectValue ELSE UndefinedValue)]

\* await db(table).columnInfo()
ColumnInfo(env) ==
    [ok |-> env.dbOk, value |-> IF env.dbOk THEN ObjectValue ELSE UndefinedValue, db |-> db,
     call |-> Call("columnInfo", <<>>, <<>>, IF env.dbOk THEN ObjectValue ELSE UndefinedValue)]

----------------------------------------------------------------------------
(* What the body of the try block ends with *)

NoFile == [written |-> FALSE, name |-> "", content |-> <<>>]

\* return { content: [{ type: "text", text }] }
Return(text, cs, dbv, f) ==
    [kind |-> "return", text |-> text, calls |-> cs, db |-> dbv, file |-> f]

\* an Error with message msg is thrown
Throw(msg, cs, dbv, f) ==
    [kind |-> "throw", text |-> JsString(msg), calls |-> cs, db |-> dbv, file |-> f]

\* args!.x when request.params.arguments is absent
ArgsTypeError == <<"Cannot read properties of undefined">>

BackendError == <<"the database rejected the call">>

\* `${sql}` and the text knex is handed for a sql argument
SqlArgText(sql) ==
    CASE sql.t = "string" -> sql.s
      [] sql.t = "number" -> sql.s
      [] sql.t = "null" -> StrNull
      [] OTHER -> StrUndefined

\* `${x}` for table and filename
StrText(x) == IF x.t = "string" THEN x.s ELSE "undefined"

\* `${count}`
NumText(c) ==
    CASE c.t = "number" -> ToString(c.n)
      [] c.t = "null" -> "null"
      [] OTHER -> "undefined"

----------------------------------------------------------------------------
(* checkSafeMode, lines 177-191 *)


\* the list without seed_data
destructiveTools_NoSeed ==
    {"insert_data", "update_data", "delete_data", "execute_migration"}

destructiveTools ==
    {"insert_data", "update_data", "delete_data", "execute_migration", "seed_data"}

\* the truthiness of a sql argument
Truthy(sql) ==
    \/ sql.t = "string" /\ sql.s # <<>>
    \/ sql.t = "number"

Pass == [thrown |-> FALSE, msg |-> <<>>]
Deny(msg) == [thrown |-> TRUE, msg |-> msg]

checkSafeMode(name, sql) ==
    IF ~safeMode THEN Pass
    ELSE IF name \in destructiveTools
    THEN Deny(<<"Tool '", name, "' is disabled in SAFE_MODE.">>)
    ELSE IF name = "execute_query" /\ Truthy(sql)
    THEN IF sql.t # "string"
         THEN Deny(<<"sql.trim is not a function">>)
         ELSE LET trimmed == ToLowerCase(Trim(sql.s)) IN
              IF /\ ~StartsWith(trimmed, KwSelect)
                 /\ ~StartsWith(trimmed, KwShow)
                 /\ ~StartsWith(trimmed, KwDescribe)
              THEN Deny(<<"Only read-only queries are allowed in SAFE_MODE.">>)
              ELSE Pass
    ELSE Pass

----------------------------------------------------------------------------
(* The handlers: the cases of the switch, lines 199-315 *)

\* lines 200-211
list_tables(args, env) ==
    IF dbType \in {"pg", "sqlite3"}
    THEN LET r == Select(env) IN
         IF ~r.ok THEN Throw(BackendError, <<r.call>>, r.db, NoFile)
         ELSE Return(JsonStringify(r.value), <<r.call>>, r.db, NoFile)
    ELSE LET r == Raw(SqlShow, env) IN
         IF ~r.ok THEN Throw(BackendError, <<r.call>>, r.db, NoFile)
         ELSE Return(JsonStringify(Index0(r.value)), <<r.call>>, r.db, NoFile)

\* lines 213-216
describe_table(args, env) ==
    IF ~args.present THEN Throw(ArgsTypeError, <<>>, db, NoFile)
    ELSE LET columns == ColumnInfo(env) IN
         IF ~columns.ok THEN Throw(BackendError, <<columns.call>>, columns.db, NoFile)
         ELSE Return(JsonStringify(columns.value), <<columns.call>>, columns.db, NoFile)

\* the PRAGMA foreign_key_list("<name>") statement of one table
PragmaText == <<"P", "R", "A", "G", "M", "A", " ", "f", "k">>

\* lines 218-237
get_relationships(args, env) ==
    IF dbType = "mysql2"
    THEN LET r == Raw(SqlSelect, env) IN
         IF ~r.ok THEN Throw(BackendError, <<r.call>>, r.db, NoFile)
         ELSE Return(JsonStringify(Index0(r.value)), <<r.call>>, r.db, NoFile)
    ELSE IF dbType = "sqlite3"
    THEN LET t == Select(env) IN
         IF ~t.ok THEN Throw(BackendError, <<t.call>>, t.db, NoFile)
         ELSE LET tables == t.value.rows
                  pragmas == [i \in 1..Len(tables) |->
                                 Call("raw", PragmaText, <<>>, ArrayValue(<<>>))]
                  rels == [i \in 1..Len(tables) |->
                              <<[k |-> "table", v |-> tables[i][2].v],
                                [k |-> "from", v |-> <<"id">>]>>]
              IN Return(JsonStringify(ArrayValue(rels)), <<t.call>> \o pragmas, t.db, NoFile)
    ELSE Return(JsonStringify(StringValue), <<>>, db, NoFile)

\* lines 239-243
execute_query(args, env) ==
    IF ~args.present THEN Throw(ArgsTypeError, <<>>, db, NoFile)
    ELSE LET result == Raw(SqlArgText(args.sql), env) IN
         IF ~result.ok THEN Throw(BackendError, <<result.call>>, result.db, NoFile)
         ELSE LET output == ExtractRows(dbType, result.value) IN
              Return(JsonStringify(output), <<result.call>>, result.db, NoFile)

\* lines 245-248
explain_query(args, env) ==
    IF ~args.present THEN Throw(ArgsTypeError, <<>>, db, NoFile)
    ELSE LET result == Raw(ExplainPrefix \o SqlArgText(args.sql), env) IN
         IF ~result.ok THEN Throw(BackendError, <<result.call>>, result.db, NoFile)
         ELSE Return(JsonStringify(result.value), <<result.call>>, result.db, NoFile)

\* the row insert_data hands to knex
DataRow == <<[k |-> "data", v |-> <<"value">>]>>

\* lines 250-253
insert_data(args, env) ==
    IF ~args.present THEN Throw(ArgsTypeError, <<>>, db, NoFile)
    ELSE LET res == Insert(<<DataRow>>, env) IN
         IF ~res.ok THEN Throw(BackendError, <<res.call>>, res.db, NoFile)
         ELSE Return(JsString(<<"Inserted ID: ", "[", "1", "]">>), <<res.call>>, res.db, NoFile)

----------------------------------------------------------------------------
(* seed_data, lines 255-275, and the faker library it reads *)

\* the members of the faker object the model knows: a generator, a generator
\* that raises when called without arguments, a property that is no function
fakerMembers ==
    [person |-> [fullName |-> "generator"],
     internet |-> [email |-> "generator"],
     helpers |-> [arrayElement |-> "raises"],
     definitions |-> [person |-> "object"]]

RECURSIVE Split(_)
\* fakerPath.split("."): the names between the dots
Split(p) ==
    IF p = <<>> THEN <<"">>
    ELSE IF Head(p) = "." THEN <<"">> \o Split(Tail(p))
    ELSE LET rest == Split(Tail(p)) IN <<Head(p) \o Head(rest)>> \o Tail(rest)

\* what lines 261-269 do for one entry: "set" (row[col] = fn()), "skip" (fn is
\* no function) or "caught" (the try block caught a TypeError or the generator's error)
EntryResult(path) ==
    LET parts == Split(path)
        namespace == parts[1]
        method == IF Len(parts) >= 2 THEN parts[2] ELSE "undefined"
    IN IF namespace \notin DOMAIN fakerMembers THEN "caught"
       ELSE IF method \notin DOMAIN fakerMembers[namespace] THEN "skip"
       ELSE CASE fakerMembers[namespace][method] = "generator" -> "set"
              [] fakerMembers[namespace][method] = "raises" -> "caught"
              [] OTHER -> "skip"

IsSet(entry) == EntryResult(entry.path.p) = "set"

\* the row one iteration of the outer loop builds
BuildRow(entries) ==
    LET kept == SelectSeq(entries, IsSet) IN
    [i \in 1..Len(kept) |-> [k |-> kept[i].col, v |-> <<"fake">>]]

\* the number of iterations of  for (let i = 0; i < (count || 10); i++)
Iterations(count) ==
    IF count.t = "number" /\ count.n # 0
    THEN (IF count.n > 0 THEN count.n ELSE 0)
    ELSE DefaultCount

seed_data(args, env) ==
    IF ~args.present THEN Throw(ArgsTypeError, <<>>, db, NoFile)
    ELSE LET n == Iterations(args.count)
             entries == args.mapping.e
         IN IF n > 0 /\ args.mapping.t # "object"
            THEN Throw(<<"Cannot convert undefined or null to object">>, <<>>, db, NoFile)
            ELSE IF n > 0 /\ \E i \in 1..Len(entries) : entries[i].path.t # "string"
            THEN Throw(<<"fakerPath.split is not a function">>, <<>>, db, NoFile)
            ELSE LET dummyRows == [i \in 1..n |-> BuildRow(entries)]
                     res == Insert(dummyRows, env)
                 IN IF ~res.ok THEN Throw(BackendError, <<res.call>>, res.db, NoFile)
                    ELSE Return(JsString(<<"Successfully seeded ", NumText(args.count),
                                           " rows into ", StrText(args.table)>>),
                                <<res.call>>, res.db, NoFile)

----------------------------------------------------------------------------
(* The remaining handlers *)

\* lines 277-280
update_data(args, env) ==
    IF ~args.present THEN Throw(ArgsTypeError, <<>>, db, NoFile)
    ELSE LET res == Modify("update", env) IN
         IF ~res.ok THEN Throw(BackendError, <<res.call>>, res.db, NoFile)
         ELSE Return(JsString(<<"Updated ", ToString(res.count), " rows.">>),
                     <<res.call>>, res.db, NoFile)

\* lines 282-285
delete_data(args, env) ==
    IF ~args.present THEN Throw(ArgsTypeError, <<>>, db, NoFile)
    ELSE LET res == Modify("del", env) IN
         IF ~res.ok THEN Throw(BackendError, <<res.call>>, res.db, NoFile)
         ELSE Return(JsString(<<"Deleted ", ToString(res.count), " rows.">>),
                     <<res.call>>, res.db, NoFile)

\* lines 287-290
execute_migration(args, env) ==
    IF ~args.present THEN Throw(ArgsTypeError, <<>>, db, NoFile)
    ELSE LET res == Raw(SqlArgText(args.sql), env) IN
         IF ~res.ok THEN Throw(BackendError, <<res.call>>, res.db, NoFile)
         ELSE Return(JsString(<<"Migration executed successfully.">>),
                     <<res.call>>, res.db, NoFile)

\* lines 292-295; the formatter is a library: its result is stood for by the
\* trimmed text, and it throws on what is no string
format_sql(args, env) ==
    IF ~args.present THEN Throw(ArgsTypeError, <<>>, db, NoFile)
    ELSE IF args.sql.t # "string" \/ ~env.fmtOk
    THEN Throw(<<"the formatter rejected the query">>, <<>>, db, NoFile)
    ELSE Return(JsString(Trim(args.sql.s)), <<>>, db, NoFile)

\* lines 301-308: the text to write, or the TypeError the branch raises
ExportContent(fmt, data) ==
    IF fmt.t = "string" /\ fmt.s = "json"
    THEN JsonStringify(data)
    ELSE IF data.kind = "array" THEN JsString(CsvContent(data.rows))
    ELSE JsUndefined

\* lines 297-311
export_data(args, env) ==
    IF ~args.present THEN Throw(ArgsTypeError, <<>>, db, NoFile)
    ELSE LET result == Raw(SqlArgText(args.sql), env) IN
         IF ~result.ok THEN Throw(BackendError, <<result.call>>, result.db, NoFile)
         ELSE LET data == ExtractRows(dbType, result.value)
                  content == ExportContent(args.format, data)
              IN IF content.t # "string"
                 THEN Throw(<<"data.map is not a function">>, <<result.call>>, result.db, NoFile)
                 ELSE IF args.filename.t # "string"
                 THEN Throw(<<"The \"path\" argument must be of type string">>,
                            <<result.call>>, result.db, NoFile)
                 ELSE IF ~env.fsOk
                 THEN Throw(<<"EACCES: permission denied">>, <<result.call>>, result.db, NoFile)
                 ELSE Return(JsString(<<"Data exported to ", "/cwd/" \o args.filename.s>>),
                             <<result.call>>, result.db,
                             [written |-> TRUE, name |-> args.filename.s,
                              content |-> content.s])

----------------------------------------------------------------------------
(* The CallToolRequestSchema handler, lines 193-322 *)

RegisteredTools ==
    {"list_tables", "describe_table", "get_relationships", "execute_query",
     "explain_query", "insert_data", "seed_data", "update_data", "delete_data",
     "execute_migration", "format_sql", "export_data"}


\* a switch whose default case treats the name as execute_query
Switch_DefaultRunsQuery(name, args, env) ==
    CASE name = "list_tables" -> list_tables(args, env)
      [] name = "describe_table" -> describe_table(args, env)
      [] name = "get_relationships" -> get_relationships(args, env)
      [] name = "explain_query" -> explain_query(args, env)
      [] name = "insert_data" -> insert_data(args, env)
      [] name = "seed_data" -> seed_data(args, env)
      [] name = "update_data" -> update_data(args, env)
      [] name = "delete_data" -> delete_data(args, env)
      [] name = "execute_migration" -> execute_migration(args, env)
      [] name = "format_sql" -> format_sql(args, env)
      [] name = "export_data" -> export_data(args, env)
      [] OTHER -> execute_query(args, env)

\* the switch statement, lines 199-315
Switch(name, args, env) ==
    CASE name = "list_tables" -> list_tables(args, env)
      [] name = "describe_table" -> describe_table(args, env)
      [] name = "get_relationships" -> get_relationships(args, env)
      [] name = "execute_query" -> execute_query(args, env)
      [] name = "explain_query" -> explain_query(args, env)
      [] name = "insert_data" -> insert_data(args, env)
      [] name = "seed_data" -> seed_data(args, env)
      [] name = "update_data" -> update_data(args, env)
      [] name = "delete_data" -> delete_data(args, env)
      [] name = "execute_migration" -> execute_migration(args, env)
      [] name = "format_sql" -> format_sql(args, env)
      [] name = "export_data" -> export_data(args, env)
      [] OTHER -> Throw(<<"Unknown tool: ", name>>, <<>>, db, NoFile)

\* the body of the try block, lines 197-315
TryBody(name, args, env) ==
    LET gate == checkSafeMode(name, args.sql) IN
    IF gate.thrown THEN Throw(gate.msg, <<>>, db, NoFile)
    ELSE Switch(name, args, env)

\* the object a case returns: no isError key
SuccessResponse(text) == [content |-> <<[type |-> "text", text |-> text]>>]


\* a catch block that forgets the isError flag
ErrorResponse_NoFlag(message) ==
    [content |-> <<[type |-> "text", text |-> JsString(<<"Error: ">> \o message)]>>]

\* the catch block, lines 316-321
ErrorResponse(message) ==
    [content |-> <<[type |-> "text", text |-> JsString(<<"Error: ">> \o message)]>>,
     isError |-> TRUE]


\* a handler whose throw is not caught
TryCatch_NoCatch(o) ==
    IF o.kind = "return"
    THEN [resp |-> SuccessResponse(o.text), escaped |-> FALSE]
    ELSE [resp |-> ErrorResponse(o.text.s), escaped |-> TRUE]

\* what try/catch makes of the body's end: the response, and whether the
\* exception left the handler
TryCatch(o) ==
    IF o.kind = "return"
    THEN [resp |-> SuccessResponse(o.text), escaped |-> FALSE]
    ELSE [resp |-> ErrorResponse(o.text.s), escaped |-> FALSE]

NoRequest == [name |-> "", args |-> NoArgs]
NoResponse == [content |-> <<>>]

\* one request handled from arrival to the settled promise
CallTool(name, args, env) ==
    \E o \in {TryBody(name, args, env)} :
        \E r \in {TryCatch(o)} :
            /\ o.db <= MaxVersion
            /\ req' = [name |-> name, args |-> args]
            /\ resp' = (IF r.escaped THEN NoResponse ELSE r.resp)
            /\ outcome' = o.kind
            /\ escaped' = r.escaped
            /\ calls' = o.calls
            /\ file' = o.file
            /\ db' = o.db
            /\ dbBefore' = db
            /\ phase' = "responded"
            /\ UNCHANGED <<safeMode, dbType>>

----------------------------------------------------------------------------
(* The requests *)

\* argument objects holding the fields a tool reads
ArgsOf(sql, table, data, where, count, mapping, format, filename) ==
    [present |-> TRUE, sql |-> sql, table |-> table, data |-> data, where |-> where,
     count |-> count, mapping |-> mapping, format |-> format, filename |-> filename]

SqlOnly(sql) ==
    ArgsOf(sql, StrUndef, ObjUndef, ObjUndef, NumUndef, MapUndef, StrUndef, StrUndef)

UnknownNames == {"drop_table", "EXECUTE_QUERY", "", "toString"}

\* the argument objects of the tools that read only sql
SqlRequests == {NoArgs} \cup {SqlOnly(sql) : sql \in SqlArgs}

ListTables ==
    /\ phase = "idle"
    /\ \E args \in {NoArgs, EmptyArgs}, env \in QueryEnvs :
           CallTool("list_tables", args, env)

DescribeTable ==
    /\ phase = "idle"
    /\ \E args \in {NoArgs} \cup {[EmptyArgs EXCEPT !.table = table] : table \in TableArgs},
          env \in WriteEnvs :
           CallTool("describe_table", args, env)

GetRelationships ==
    /\ phase = "idle"
    /\ \E args \in {NoArgs, EmptyArgs}, env \in QueryEnvs :
           CallTool("get_relationships", args, env)

ExecuteQuery ==
    /\ phase = "idle"
    /\ \E args \in SqlRequests, env \in QueryEnvs :
           CallTool("execute_query", args, env)

ExplainQuery ==
    /\ phase = "idle"
    /\ \E args \in SqlRequests, env \in QueryEnvs :
           CallTool("explain_query", args, env)

InsertData ==
    /\ phase = "idle"
    /\ \E args \in {NoArgs} \cup
                   {[EmptyArgs EXCEPT !.table = table, !.data = data, !.sql = sql] :
                       table \in TableArgs, data \in ObjArgs,
                       sql \in {SqlUndefined, SqlString(SqlSelect)}},
          env \in WriteEnvs :
           CallTool("insert_data", args, env)

SeedData ==
    /\ phase = "idle"
    /\ \E args \in {NoArgs} \cup
                   {[EmptyArgs EXCEPT !.table = table, !.count = count, !.mapping = mapping] :
                       table \in TableArgs, count \in CountArgs, mapping \in MappingArgs},
          env \in {DefaultEnv, [DefaultEnv EXCEPT !.dbOk = FALSE]} :
           CallTool("seed_data", args, env)

UpdateData ==
    /\ phase = "idle"
    /\ \E args \in {NoArgs} \cup
                   {[EmptyArgs EXCEPT !.table = table, !.data = data, !.where = where] :
                       table \in TableArgs, data \in ObjArgs, where \in ObjArgs},
          env \in WriteEnvs :
           CallTool("update_data", args, env)

DeleteData ==
    /\ phase = "idle"
    /\ \E args \in {NoArgs} \cup
                   {[EmptyArgs EXCEPT !.table = table, !.where = where] :
                       table \in TableArgs, where \in ObjArgs},
          env \in WriteEnvs :
           CallTool("delete_data", args, env)

ExecuteMigration ==
    /\ phase = "idle"
    /\ \E args \in SqlRequests, env \in WriteEnvs :
           CallTool("execute_migration", args, env)

FormatSql ==
    /\ phase = "idle"
    /\ \E args \in SqlRequests, env \in {DefaultEnv, [DefaultEnv EXCEPT !.fmtOk = FALSE]} :
           CallTool("format_sql", args, env)

ExportData ==
    /\ phase = "idle"
    /\ \E args \in {NoArgs} \cup
                   {[EmptyArgs EXCEPT !.sql = sql, !.format = format, !.filename = filename] :
                       sql \in SqlArgs, format \in FormatArgs, filename \in FilenameArgs},
          env \in QueryEnvs \cup {[DefaultEnv EXCEPT !.fsOk = FALSE]} :
           CallTool("export_data", args, env)

UnknownTool ==
    /\ phase = "idle"
    /\ \E name \in UnknownNames, args \in SqlRequests :
           CallTool(name, args, DefaultEnv)

\* the transport sends the response and the server waits for the next request
SendResponse ==
    /\ phase = "responded"
    /\ phase' = "idle"
    /\ req' = NoRequest
    /\ resp' = NoResponse
    /\ outcome' = "none"
    /\ escaped' = FALSE
    /\ calls' = <<>>
    /\ file' = NoFile
    /\ dbBefore' = db
    /\ UNCHANGED <<safeMode, dbType, db>>

Init ==
    /\ safeMode \in BOOLEAN
    /\ dbType \in DbTypes
    /\ db = 0
    /\ phase = "idle"
    /\ req = NoRequest
    /\ resp = NoResponse
    /\ outcome = "none"
    /\ escaped = FALSE
    /\ calls = <<>>
    /\ file = NoFile
    /\ dbBefore = 0

Next ==
    \/ ListTables
    \/ DescribeTable
    \/ GetRelationships
    \/ ExecuteQuery
    \/ ExplainQuery
    \/ InsertData
    \/ SeedData
    \/ UpdateData
    \/ DeleteData
    \/ ExecuteMigration
    \/ FormatSql
    \/ ExportData
    \/ UnknownTool
    \/ SendResponse

Spec == Init /\ [][Next]_vars

----------------------------------------------------------------------------
(* The properties *)

Responded == phase = "responded"

IsErrorResponse == "isError" \in DOMAIN resp /\ resp.isError = TRUE

\* the text of the response, in pieces
ResponseText == resp.content[1].text.s

\* content is exactly one element of type "text" whose text is a string
OneTextElement ==
    /\ Len(resp.content) = 1
    /\ resp.content[1].type = "text"
    /\ resp.content[1].text.t = "string"

\* C1: every tool request resolves to exactly one response object, and no
\* exception leaves the handler, whatever the tool name, the arguments, the
\* readOnly setting and the failures of the backend, formatter or file system.
C1_HandlerNeverThrows ==
    Responded => (escaped = FALSE /\ resp # NoResponse /\ Len(resp.content) = 1)

\* a request whose backend call was made and rejected
C1_Witness ==
    /\ Responded
    /\ outcome = "throw"
    /\ calls # <<>>
    /\ calls[1].result.kind = "undefined"
    /\ IsErrorResponse

\* C2: in safe mode every insert_data, update_data, delete_data,
\* execute_migration or seed_data request is answered with isError = true,
\* makes no backend call and leaves the database as it was.
C2_DestructiveDenied ==
    (/\ Responded
     /\ safeMode
     /\ req.name \in {"insert_data", "update_data", "delete_data",
                      "execute_migration", "seed_data"})
    => (IsErrorResponse /\ calls = <<>> /\ db = dbBefore)

\* a well-formed seed_data request denied in safe mode
C2_Witness ==
    /\ Responded
    /\ safeMode
    /\ req.name = "seed_data"
    /\ req.args.present
    /\ req.args.mapping.t = "object"
    /\ req.args.mapping.e # <<>>
    /\ IsErrorResponse

\* C3: in safe mode no request changes the contents or schema of the database.
C3_SafeModeNeverChangesDb ==
    (Responded /\ safeMode) => db = dbBefore

\* whether a sql argument, trimmed and lower-cased, begins with
\* select, show or describe
BeginsReadOnly(sql) ==
    /\ sql.t = "string"
    /\ \E kw \in {KwSelect, KwShow, KwDescribe} : StartsWith(ToLowerCase(Trim(sql.s)), kw)

\* C4: in safe mode an execute_query request reaches the backend iff its sql
\* begins (trimmed, lower-cased) with select, show or describe; every other
\* sql value, the empty string and an absent sql included, is denied with
\* isError = true and no backend call.
C4_ExecuteQueryGate ==
    (Responded /\ safeMode /\ req.name = "execute_query")
    => /\ (calls # <<>>) <=> BeginsReadOnly(req.args.sql)
       /\ ~BeginsReadOnly(req.args.sql) => IsErrorResponse

C6_UnknownTool ==
    (Responded /\ req.name \notin RegisteredTools)
    => /\ IsErrorResponse
       /\ ResponseText = <<"Error: ", "Unknown tool: ", req.name>>
       /\ calls = <<>>
       /\ ~file.written
       /\ db = dbBefore

\* an unregistered name that differs from a registered one by case only, in
\* safe mode, with a changing sql
C6_Witness ==
    /\ Responded
    /\ safeMode
    /\ req.name = "EXECUTE_QUERY"
    /\ req.args.sql = SqlString(SqlDelete)
    /\ IsErrorResponse

----------------------------------------------------------------------------
(* seed_data *)

\* the faker paths of the model that name a generator that returns
ResolvingPaths == {<<"person", ".", "fullName">>, <<"internet", ".", "email">>}

Resolves(entry) == entry.path.p \in ResolvingPaths

\* a seed_data request with an argument object whose mapping is an object of
\* strings, handled with readOnly false
SeedRequest ==
    /\ Responded
    /\ ~safeMode
    /\ req.name = "seed_data"
    /\ req.args.present
    /\ req.args.mapping.t = "object"
    /\ \A i \in 1..Len(req.args.mapping.e) : req.args.mapping.e[i].path.t = "string"

\* the handler made exactly one backend call, a bulk insert of n rows
OneInsertOf(n) ==
    /\ Len(calls) = 1
    /\ calls[1].op = "insert"
    /\ Len(calls[1].rows) = n

\* the columns of a built row, and the columns whose paths resolve
ColumnsOf(row) == [i \in 1..Len(row) |-> row[i].k]
ResolvedColumns ==
    LET kept == SelectSeq(req.args.mapping.e, Resolves) IN
    [i \in 1..Len(kept) |-> kept[i].col]

\* every submitted row holds exactly the columns whose paths resolved
RowsHoldResolvedColumns ==
    \A i \in 1..Len(calls[1].rows) : ColumnsOf(calls[1].rows[i]) = ResolvedColumns

\* the call succeeds unless the database rejects the insert
SucceedsUnlessRejected ==
    calls[1].result.kind # "undefined" => outcome = "return"

\* C7: with readOnly false, a seed_data request whose mapping has entries that
\* do not resolve to a generator, or whose generator raises, still succeeds:
\* it inserts the full count of rows (count, or 10 when count is omitted), and
\* each row holds exactly the columns whose paths resolved.
C7_FailingEntriesDoNotAbort ==
    (/\ SeedRequest
     /\ \E i \in 1..Len(req.args.mapping.e) : ~Resolves(req.args.mapping.e[i])
     /\ \/ req.args.count.t = "undefined"
        \/ req.args.count.t = "number" /\ req.args.count.n >= 0)
    => /\ OneInsertOf(IF req.args.count.t = "number" THEN req.args.count.n ELSE 10)
       /\ RowsHoldResolvedColumns
       /\ SucceedsUnlessRejected

\* C7 where the code meets it: the same statement for a count of 1 or more,
\* or an omitted count
C7_ForPositiveCount ==
    (/\ SeedRequest
     /\ \E i \in 1..Len(req.args.mapping.e) : ~Resolves(req.args.mapping.e[i])
     /\ \/ req.args.count.t = "undefined"
        \/ req.args.count.t = "number" /\ req.args.count.n >= 1)
    => /\ OneInsertOf(IF req.args.count.t = "number" THEN req.args.count.n ELSE 10)
       /\ RowsHoldResolvedColumns
       /\ SucceedsUnlessRejected

\* C8: with readOnly false, a seed_data request with count = N, N >= 0, builds
\* exactly N rows and submits them in exactly one bulk insert; with count
\* omitted it builds and submits exactly 10 rows.
C8_SeedsExactlyCount ==
    SeedRequest
    => /\ (req.args.count.t = "number" /\ req.args.count.n >= 0)
             => OneInsertOf(req.args.count.n)
       /\ req.args.count.t = "undefined" => OneInsertOf(10)

----------------------------------------------------------------------------
(* export_data *)

\* an export_data request that wrote its file from a query result of rows
Exported ==
    /\ Responded
    /\ req.name = "export_data"
    /\ file.written
    /\ Len(calls) = 1
    /\ ~calls[1].result.hdr

\* the rows the query returned
ExportedRows == calls[1].result.rows

\* C9: format defaults to "json": a request that omits format writes the
\* pretty-printed JSON array of the result rows, as the same request with
\* format = "json" does.
C9_FormatDefaultsToJson ==
    (Exported /\ req.args.format.t = "undefined")
    => file.content = JsonArray(ExportedRows, 0)

\* the line breaks inside the keys and values of the rows
EmbeddedBreaks(rows) ==
    Cardinality({<<i, j, k>> \in (1..Len(rows)) \X (1..2) \X (1..3) :
                    /\ j <= Len(rows[i])
                    /\ k <= Len(rows[i][j].v)
                    /\ rows[i][j].v[k] = "\n"})

\* C10 as stated: N rows give a JSON array of length N with format "json";
\* with format "csv", exactly N + 1 lines when N > 0 and no data row when N = 0.
C10_CsvHasNPlusOneLines ==
    Exported
    => /\ req.args.format = Str("json")
             => (IsJsonArrayText(file.content)
                 /\ JsonArrayLength(file.content) = Len(ExportedRows))
       /\ req.args.format = Str("csv")
             => IF Len(ExportedRows) > 0
                THEN CountLines(file.content) = Len(ExportedRows) + 1
                ELSE file.content = <<"\n">>

\* C10 as the handler writes the file: N rows give a JSON array of length N
\* with format "json";
\* with format "csv" the file is the header line and one text per row, joined
\* by line breaks with the values unquoted: when N > 0 it has N + 1 lines plus
\* one line for every line break inside a value, so exactly N + 1 lines when
\* no value holds a line break; when N = 0 it is a lone line break, with an
\* empty header and no data row.
C10_ExportShape ==
    Exported
    => /\ req.args.format = Str("json")
             => (IsJsonArrayText(file.content)
                 /\ JsonArrayLength(file.content) = Len(ExportedRows))
       /\ req.args.format = Str("csv")
             => IF Len(ExportedRows) > 0
                THEN CountLines(file.content)
                        = Len(ExportedRows) + 1 + EmbeddedBreaks(ExportedRows)
                ELSE file.content = <<"\n">>

\* a csv export of two rows, none of which holds a line break: three lines
C10_Witness ==
    /\ Exported
    /\ req.args.format = Str("csv")
    /\ Len(ExportedRows) = 2
    /\ EmbeddedBreaks(ExportedRows) = 0
    /\ CountLines(file.content) = 3

----------------------------------------------------------------------------
(* the handlers that run raw SQL *)

\* a request for `name` that ran one raw statement and returned its text
RanRaw(name) ==
    /\ Responded
    /\ req.name = name
    /\ outcome = "return"
    /\ Len(calls) = 1
    /\ calls[1].op = "raw"

\* the rows of the raw result, taken as the engine type prescribes
ExtractedRows == ExtractRows(dbType, calls[1].result)

\* the text of the response is the JSON of the extracted rows
TextOfExtractedRows == resp.content[1].text = JsonStringify(ExtractedRows)

\* the written file is built from the extracted rows
FileOfExtractedRows ==
    /\ file.written
    /\ JsString(file.content) = ExportContent(req.args.format, ExtractedRows)

\* C11: for each engine type and any raw result, execute_query, explain_query
\* and export_data extract the rows in the same way (result[0] for mysql2,
\* result.rows for pg, the result itself for sqlite3), and the text or file
\* each produces is built from those extracted rows only.
C11_RowsExtractedAlike ==
    /\ RanRaw("execute_query") => TextOfExtractedRows
    /\ RanRaw("explain_query") => TextOfExtractedRows
    /\ RanRaw("export_data") => FileOfExtractedRows

\* C11 where the code meets it: execute_query and export_data on every
\* engine, and explain_query on sqlite3, where the result is the rows
C11_ExceptExplain ==
    /\ RanRaw("execute_query") => TextOfExtractedRows
    /\ (RanRaw("explain_query") /\ dbType = "sqlite3") => TextOfExtractedRows
    /\ RanRaw("export_data") => FileOfExtractedRows

\* explain_query on mysql2 and pg answers with the whole raw result
C11_ExplainReturnsRawResult ==
    (RanRaw("explain_query") /\ dbType \in {"mysql2", "pg"})
    => /\ resp.content[1].text = JsonStringify(calls[1].result)
       /\ ~TextOfExtractedRows

====
